---- MODULE Spec2Model ----
(***************************************************************************)
(* Model of ThingsBoardHttpSized (src/src/ThingsBoardHttp.h) and of        *)
(* Helper::detectSize (src/src/Helper.h): size computation, stack / heap   *)
(* buffer choice, aggregation of key-value records into a JSON document    *)
(* and the hand-over of the serialized payload to the HTTP transport.      *)
(*                                                                         *)
(* Every public operation is synchronous and runs to completion, so each   *)
(* operation is one action.  The action records in `call` everything the   *)
(* operation did: its inputs, its return value, how it ended, the log      *)
(* lines, the transport posts, the buffer it used, the document it built.  *)
(***************************************************************************)
EXTENDS Integers, Sequences, FiniteSets, TLC

VARIABLES
    m_maxStack,   \* ThingsBoardHttpSized::m_maxStack
    m_token,      \* length of ThingsBoardHttpSized::m_token, NullToken for nullptr
    heap,         \* number of heap buffers allocated and not yet released
    call          \* observation of the last operation

vars == <<m_maxStack, m_token, heap, call>>

----------------------------------------------------------------------------
(* Bounds of the model *)

MaxFieldsAmt  == 2     \* template parameter MaxFieldsAmt of the fixed configuration
StackStep     == 8     \* setMaximumStackSize is given multiples of StackStep
MaxStackSteps == 2     \* ... up to MaxStackSteps * StackStep
MaxJsonSize   == 15    \* largest jsonSize a caller passes to a direct JSON send
MaxFormatted  == 300   \* largest dry-run result of the formatter
MinFormatted  == 3     \* the formatter's results go down to -MinFormatted
ShortTokenLen == 20    \* length of an ordinary access token
LongTokenLen  == 237   \* length of a long access token

(* Program constants *)

HTTP_SUCCESS               == 0
HTTP_RESPONSE_SUCCESS_CODE == 200
TelemetryTopicLen          == 18   \* strlen("/api/v1/%s/telemetry") without %s
AttributesTopicLen         == 19   \* strlen("/api/v1/%s/attributes") without %s

\* what the transport may answer: post()'s return code, responseStatusCode()
PostCodes   == {HTTP_SUCCESS, 0 - 1}
StatusCodes == {HTTP_RESPONSE_SUCCESS_CODE, 404}

NullToken == 0 - 1

Pow8  == 2 ^ 8

Min(a, b) == IF a < b THEN a ELSE b

\* conversion of an int32_t to uint8_t
ToUint8(n)  == n % Pow8

\* `written < jsonSize - 1` with jsonSize a uint32_t: for jsonSize = 0 the
\* right-hand side wraps to 2^32 - 1, which is above every count
\* serializeJson can report.
BelowSizeMinusOne(written, jsonSize) ==
    IF jsonSize = 0 THEN TRUE ELSE written < jsonSize - 1

----------------------------------------------------------------------------
(* Key-value records and JSON documents *)

KeyNames == <<"a", "b", "c", "d">>
Keys == {"a", "b", "c"}
Vals == {"1", "2"}
NullKey == "null"

\* A Telemetry record; a record built from a null key is empty.
Records == [key : Keys \cup {NullKey}, val : Vals]
EmptyRecord == [key |-> NullKey, val |-> "1"]
DataRecords == {r \in Records : r.key # NullKey} \cup {EmptyRecord}

IsEmpty(t) == t.key = NullKey

\* A JSON variant: null, or an object with an ordered list of members.
NullDoc == [null |-> TRUE, fields |-> <<>>]
EmptyObject == [null |-> FALSE, fields |-> <<>>]

DocSize(doc) == Len(doc.fields)

HasKey(doc, k) == \E i \in 1..Len(doc.fields) : doc.fields[i].key = k

\* object[key] = value : replaces the member with that key, or appends one.
SetMember(doc, t) ==
    IF HasKey(doc, t.key)
    THEN [null |-> FALSE,
          fields |-> [i \in 1..Len(doc.fields) |->
                        IF doc.fields[i].key = t.key THEN t ELSE doc.fields[i]]]
    ELSE [null |-> FALSE, fields |-> Append(doc.fields, t)]

\* Telemetry::SerializeKeyValue into a document with room for `capacity`
\* members: an empty record contributes nothing and reports failure, and so
\* does a new member the document has no room for.
SerializeKeyValue(t, doc, capacity) ==
    IF IsEmpty(t) THEN [ok |-> FALSE, doc |-> doc]
    ELSE IF ~HasKey(doc, t.key) /\ DocSize(doc) >= capacity
         THEN [ok |-> FALSE, doc |-> doc]
         ELSE [ok |-> TRUE, doc |-> SetMember(doc, t)]

\* The JSON text of a document, one character per element.
RenderField(t) == <<"\"", t.key, "\"", ":", t.val>>

RECURSIVE RenderFields(_)
RenderFields(fs) ==
    IF fs = <<>> THEN <<>>
    ELSE IF Len(fs) = 1 THEN RenderField(fs[1])
    ELSE RenderField(fs[1]) \o <<",">> \o RenderFields(Tail(fs))

Render(doc) ==
    IF doc.null THEN <<"n", "u", "l", "l">>
    ELSE <<"{">> \o RenderFields(doc.fields) \o <<"}">>

measureJson(doc) == Len(Render(doc))

JSON_STRING_SIZE(n) == n + 1

\* serializeJson(source, buffer, bufferSize): writes as much of the text as
\* the buffer holds and returns the number of characters written; the
\* terminator is added only when there is room left for it.
Prefix(s, n) == [i \in 1..n |-> s[i]]

serializeJson(doc, bufferSize) ==
    LET text == Render(doc)
        n    == Min(Len(text), bufferSize)
    IN  [written |-> n, text |-> Prefix(text, n), terminated |-> n < bufferSize]

----------------------------------------------------------------------------
(* Size computation *)

\* Helper::detectSize(format, args...): n is what snprintf(nullptr, 0, ...)
\* reports.  n + 1U is computed in unsigned arithmetic and stored in an int:
\* modulo 2^32 that is n + 1 for every n of the formatter's range.
Helper_detectSize(n) ==
    LET result == n + 1
    IN  IF result >= 0 THEN [aborted |-> FALSE, value |-> result]
        ELSE [aborted |-> TRUE, value |-> 0]

\* ThingsBoardHttpSized::detectSize(msg, ...): n is what
\* vsnprintf_P(nullptr, 0, ...) reports.  The int32_t result is returned
\* as uint8_t.
detectSize(n) ==
    LET result == JSON_STRING_SIZE(n)
    IN  IF result >= 0 THEN [aborted |-> FALSE, value |-> ToUint8(result)]
        ELSE [aborted |-> TRUE, value |-> 0]

----------------------------------------------------------------------------
(* What one operation did.  outcome: "returned", "threw" (an exception left *)
(* the operation), "crashed" (an invalid memory access stopped the         *)
(* program), "aborted" (assert / abort).                                   *)

Trace == [result     |-> FALSE,
          outcome    |-> "returned",
          logs       |-> <<>>,
          posts      |-> <<>>,
          buf        |-> "none",   \* "stack", "heap": where the JSON buffer was taken
          allocs     |-> 0,        \* heap buffers obtained
          frees      |-> 0,        \* heap buffers released
          requested  |-> 0,        \* size asked of the buffer, when one was asked for
          written    |-> 0,        \* characters serializeJson reported
          serialized |-> FALSE,    \* serializeJson was called
          nullWrite  |-> FALSE,    \* serializeJson was given a null buffer
          nullRead   |-> FALSE,    \* a null record array was read
          gets       |-> <<>>,     \* GET requests handed to the transport
          response   |-> "",       \* the caller's response string after a GET
          events     |-> <<>>]     \* the steps taken, in the order they were taken:
                                   \* "aggregate", "measure", "allocate", "serialize",
                                   \* "post", "fail" (a check ended the send), "free"

\* A check that ends the send: the message is logged, false is returned.
Failed(message) == [Trace EXCEPT !.logs = <<message>>, !.events = <<"fail">>]

\* A check that ends the send without a message.
FailedSilently == [Trace EXCEPT !.events = <<"fail">>]

\* What the environment decides during one operation.
Envs == [success : PostCodes,
         status  : StatusCodes,
         alloc   : {"ok", "throw", "null"},  \* new char[jsonSize]: memory, or none
                                             \* (std::bad_alloc, or nullptr in a
                                             \* build without exceptions)
         ub      : {"crash", "continue"}]    \* what an invalid memory access does

----------------------------------------------------------------------------
(* Transport *)

\* postMessage(path, json)
\* (postMessage_Retries: a failed post is tried a second time)
postMessage_Retries(path, json, env) ==
    LET failed == env.success # HTTP_SUCCESS \/ env.status # HTTP_RESPONSE_SUCCESS_CODE
        post   == [path |-> path, json |-> json,
                   success |-> env.success, status |-> env.status]
    IN  [Trace EXCEPT
            !.posts  = IF failed THEN <<post, post>> ELSE <<post>>,
            !.logs   = IF failed THEN <<"HTTP_FAILED">> ELSE <<>>,
            !.events = IF failed THEN <<"post", "post", "fail">> ELSE <<"post">>,
            !.result = ~failed]
\* (postMessage_EitherSuffices: the test written with && in place of ||)
postMessage_EitherSuffices(path, json, env) ==
    LET failed == env.success # HTTP_SUCCESS /\ env.status # HTTP_RESPONSE_SUCCESS_CODE
    IN  [Trace EXCEPT
            !.posts  = <<[path |-> path, json |-> json,
                          success |-> env.success, status |-> env.status]>>,
            !.logs   = IF failed THEN <<"HTTP_FAILED">> ELSE <<>>,
            !.events = IF failed THEN <<"post", "fail">> ELSE <<"post">>,
            !.result = ~failed]
postMessage(path, json, env) ==
    LET failed == env.success # HTTP_SUCCESS \/ env.status # HTTP_RESPONSE_SUCCESS_CODE
    IN  [Trace EXCEPT
            !.posts  = <<[path |-> path, json |-> json,
                          success |-> env.success, status |-> env.status]>>,
            !.logs   = IF failed THEN <<"HTTP_FAILED">> ELSE <<>>,
            !.events = IF failed THEN <<"post", "fail">> ELSE <<"post">>,
            !.result = ~failed]

TopicLen(telemetry) == IF telemetry THEN TelemetryTopicLen ELSE AttributesTopicLen
TopicName(telemetry) == IF telemetry THEN "telemetry" ELSE "attributes"

\* sendTelemetryJson(const char*) / sendAttributeJSON(const char*):
\* jsonIsNull tells whether the caller's string is nullptr.
sendJsonString(telemetry, jsonIsNull, json, env) ==
    IF jsonIsNull \/ m_token = NullToken THEN FailedSilently
    ELSE
      LET length == TopicLen(telemetry) + m_token
          size   == detectSize(length)
          cap    == size.value
      IN  IF size.aborted THEN [Trace EXCEPT !.outcome = "aborted"]
          ELSE IF ~json.terminated /\ env.ub = "crash"
          THEN \* the transport reads the payload up to a terminator that is not there
               [Trace EXCEPT !.outcome = "crashed"]
          ELSE IF cap = 0
          THEN \* char path[0]: nothing is written, postMessage reads past it
               IF env.ub = "crash" THEN [Trace EXCEPT !.outcome = "crashed"]
               ELSE postMessage([topic |-> TopicName(telemetry), chars |-> 0,
                                 length |-> length, terminated |-> FALSE], json, env)
          ELSE postMessage([topic |-> TopicName(telemetry),
                            chars |-> Min(length, cap - 1),
                            length |-> length, terminated |-> TRUE], json, env)

----------------------------------------------------------------------------
(* JSON sends *)

UNABLE_TO_ALLOCATE_MEMORY == "UNABLE_TO_ALLOCATE_MEMORY"
TOO_MANY_JSON_FIELDS      == "TOO_MANY_JSON_FIELDS"
UNABLE_TO_SERIALIZE_JSON  == "UNABLE_TO_SERIALIZE_JSON"
UNABLE_TO_SERIALIZE       == "UNABLE_TO_SERIALIZE"

\* The serialization into the buffer, the length check and the hand-over
\* to the string overload; the same statements on the heap and stack paths.
SerializeAndSend(telemetry, doc, jsonSize, env, t) ==
    LET s == serializeJson(doc, jsonSize)
        u == [t EXCEPT !.serialized = TRUE, !.written = s.written]
    IN  IF BelowSizeMinusOne(s.written, jsonSize)
        THEN [u EXCEPT !.logs = <<UNABLE_TO_SERIALIZE_JSON>>,
                       !.events = @ \o <<"serialize", "fail">>]
        ELSE LET r == sendJsonString(telemetry, FALSE,
                                     [text |-> s.text, terminated |-> s.terminated], env)
             IN  [u EXCEPT !.result = r.result, !.outcome = r.outcome,
                           !.logs = r.logs, !.posts = r.posts,
                           !.events = @ \o <<"serialize">> \o r.events]

\* getMaximumStackSize() < jsonSize
\* (UseHeap_OffByOne: the comparison written as <=)
UseHeap_OffByOne(jsonSize) == m_maxStack <= jsonSize
UseHeap(jsonSize) == m_maxStack < jsonSize

\* delete[] json at the end of the heap branch, reached on both outcomes of
\* the length check whenever control comes back from the post.
\* (Release_OnSuccessOnly: the delete[] placed in the success branch only)
\* (Release_BeforeSend: the delete[] placed ahead of the call that posts)
Release_BeforeSend(r) ==
    IF r.outcome # "returned" THEN r
    ELSE IF r.posts = <<>> THEN [r EXCEPT !.frees = 1, !.events = @ \o <<"free">>]
    ELSE LET k == CHOOSE i \in 1..Len(r.events) : r.events[i] = "post"
         IN  [r EXCEPT !.frees = 1,
                       !.events = SubSeq(@, 1, k - 1) \o <<"free">>
                                  \o SubSeq(@, k, Len(@))]
Release_OnSuccessOnly(r) ==
    IF r.outcome = "returned" /\ r.result
    THEN [r EXCEPT !.frees = 1, !.events = @ \o <<"free">>] ELSE r
Release(r) ==
    IF r.outcome = "returned"
    THEN [r EXCEPT !.frees = 1, !.events = @ \o <<"free">>] ELSE r

\* The buffer branches of sendTelemetryJson / sendAttributeJSON
\* (JsonObject or JsonVariant, jsonSize): onHeap tells which one is taken.
sendBufferedOn(onHeap, telemetry, doc, jsonSize, env) ==
    IF onHeap
    THEN LET t == [Trace EXCEPT !.buf = "heap", !.requested = jsonSize,
                                !.events = <<"allocate">>]
         IN  IF env.alloc = "ok"
             THEN Release(SerializeAndSend(telemetry, doc, jsonSize, env,
                                           [t EXCEPT !.allocs = 1]))
             ELSE IF env.alloc = "throw"
             THEN \* new throws std::bad_alloc, nothing catches it
                  [t EXCEPT !.outcome = "threw"]
             ELSE \* new yields nullptr, serializeJson writes through it
                  IF env.ub = "crash"
                  THEN [t EXCEPT !.outcome = "crashed", !.serialized = TRUE,
                                 !.nullWrite = TRUE, !.events = @ \o <<"serialize">>]
                  ELSE SerializeAndSend(telemetry, doc, jsonSize, env,
                                        [t EXCEPT !.nullWrite = TRUE])
    ELSE SerializeAndSend(telemetry, doc, jsonSize, env,
                          [Trace EXCEPT !.buf = "stack", !.requested = jsonSize,
                                        !.events = <<"allocate">>])

sendBuffered(telemetry, doc, jsonSize, env) ==
    sendBufferedOn(UseHeap(jsonSize), telemetry, doc, jsonSize, env)

\* sendTelemetryJson / sendAttributeJSON (JsonObject or JsonVariant, jsonSize)
\* (sendJson_NoNullCheck: the isNull() test left out)
sendJson_NoNullCheck(telemetry, doc, jsonSize, env) ==
    IF MaxFieldsAmt < DocSize(doc)
    THEN Failed(TOO_MANY_JSON_FIELDS)
    ELSE sendBuffered(telemetry, doc, jsonSize, env)
\* (sendJson_RejectsAtLimit: the field-count test written as <=)
sendJson_RejectsAtLimit(telemetry, doc, jsonSize, env) ==
    IF doc.null THEN Failed(UNABLE_TO_ALLOCATE_MEMORY)
    ELSE IF MaxFieldsAmt <= DocSize(doc)
    THEN Failed(TOO_MANY_JSON_FIELDS)
    ELSE sendBuffered(telemetry, doc, jsonSize, env)
sendJson(telemetry, doc, jsonSize, env) ==
    IF doc.null THEN Failed(UNABLE_TO_ALLOCATE_MEMORY)
    ELSE IF MaxFieldsAmt < DocSize(doc)
    THEN Failed(TOO_MANY_JSON_FIELDS)
    ELSE sendBuffered(telemetry, doc, jsonSize, env)

\* The loop of sendDataArray over data[i .. ]: n counts the records that
\* went into the document.
\* (Aggregate_StopsEarly: the loop bound written as i < data_count - 1)
RECURSIVE Aggregate(_, _, _, _)
Aggregate_StopsEarly(data, i, doc, n) ==
    IF i >= Len(data) THEN [ok |-> TRUE, doc |-> doc, n |-> n]
    ELSE LET r == SerializeKeyValue(data[i], doc, MaxFieldsAmt)
         IN  IF ~r.ok THEN [ok |-> FALSE, doc |-> doc, n |-> n]
             ELSE Aggregate(data, i + 1, r.doc, n + 1)
Aggregate(data, i, doc, n) ==
    IF i > Len(data) THEN [ok |-> TRUE, doc |-> doc, n |-> n]
    ELSE LET r == SerializeKeyValue(data[i], doc, MaxFieldsAmt)
         IN  IF ~r.ok THEN [ok |-> FALSE, doc |-> doc, n |-> n]
             ELSE Aggregate(data, i + 1, r.doc, n + 1)

Built == [doc |-> NullDoc, nserialized |-> 0, measured |-> FALSE, jsonSize |-> 0]

\* The steps t of a JSON send, after the steps that led to it.
After(steps, t) == [t EXCEPT !.events = steps \o @]

\* sendDataArray(data, data_count, telemetry)
sendDataArray(data, telemetry, env) ==
    LET a == Aggregate(data, 1, NullDoc, 0)
        b == [Built EXCEPT !.doc = a.doc, !.nserialized = a.n]
    IN  IF ~a.ok
        THEN After(<<"collect", "aggregate">>, Failed(UNABLE_TO_SERIALIZE)) @@ b
        ELSE LET jsonSize == JSON_STRING_SIZE(measureJson(a.doc))
             IN  After(<<"collect", "aggregate", "measure">>,
                       sendJson(telemetry, a.doc, jsonSize, env))
                 @@ [b EXCEPT !.measured = TRUE, !.jsonSize = jsonSize]

\* sendDataArray(nullptr, data_count, telemetry): data[i] is read without a
\* test of data.  With data_count = 0 the loop body never runs; otherwise
\* the read of data[0] is an invalid memory access, which ends the program
\* or yields whatever lies at that address (cells).
sendDataArrayNull(cells, telemetry, env) ==
    IF Len(cells) = 0 THEN sendDataArray(<<>>, telemetry, env)
    ELSE IF env.ub = "crash"
    THEN [Trace EXCEPT !.outcome = "crashed", !.nullRead = TRUE,
                       !.events = <<"collect", "aggregate">>] @@ Built
    ELSE [sendDataArray(cells, telemetry, env) EXCEPT !.nullRead = TRUE]

\* sendKeyValue(type, key, value, telemetry)
sendKeyValue(t, telemetry, env) ==
    IF IsEmpty(t) THEN After(<<"collect">>, FailedSilently) @@ Built
    ELSE LET r == SerializeKeyValue(t, NullDoc, 1)
             b == [Built EXCEPT !.doc = r.doc, !.nserialized = IF r.ok THEN 1 ELSE 0]
         IN  IF ~r.ok
             THEN After(<<"collect", "aggregate">>, Failed(UNABLE_TO_SERIALIZE)) @@ b
             ELSE LET jsonSize == JSON_STRING_SIZE(measureJson(r.doc))
                  IN  After(<<"collect", "aggregate", "measure">>,
                            sendJson(telemetry, r.doc, jsonSize, env))
                      @@ [b EXCEPT !.measured = TRUE, !.jsonSize = jsonSize]

\* Telemetry(type, key, value): a null key, or a tag that does not match the
\* representation of the value, gives the empty record.
Tags == {"CString", "Bool"}
Telemetry(type, key, representation, value) ==
    IF key = NullKey \/ type # representation THEN EmptyRecord
    ELSE [key |-> key, val |-> value]

\* sendTelemetryData(type, key, value): sendKeyValue(type, key, value).
sendTelemetryData(type, key, representation, value, env) ==
    sendKeyValue(Telemetry(type, key, representation, value), TRUE, env)

\* sendAttributeData(type, key, value): sendKeyValue(key, value, false).  The
\* type argument is not passed on, so key arrives as the tag, value as the
\* key, false as the value, and the telemetry parameter keeps its default,
\* true.  This is well-formed C++ only for a C string value.  What the
\* Telemetry constructor makes of a C string in the place of the tag is
\* not settled by its description: with `taken` the record holds
\* value : false, without it the record is empty.
sendAttributeData(type, key, representation, value, taken, env) ==
    LET t == IF taken /\ value # NullKey
             THEN [key |-> value, val |-> "false"]
             ELSE EmptyRecord
    IN  sendKeyValue(t, TRUE, env)

\* getMessage(path, response): m_client.get returns an int, HTTP_SUCCESS (0)
\* when the request went out, and is stored in a bool; the status is
\* compared with HTTP_SUCCESS.
ToBool(n) == n # 0

getMessage_AssignsFirst(response, get) ==
    LET success == ToBool(get.code)
        request == <<get>>
    IN  IF ~success \/ get.status # HTTP_SUCCESS
        THEN [Trace EXCEPT !.gets = request, !.logs = <<"HTTP_FAILED">>,
                           !.response = get.body, !.events = <<"get", "fail">>]
        ELSE [Trace EXCEPT !.gets = request, !.result = TRUE,
                           !.response = get.body, !.events = <<"get">>]
getMessage(response, get) ==
    LET success == ToBool(get.code)
        request == <<get>>
    IN  IF ~success \/ get.status # HTTP_SUCCESS
        THEN [Trace EXCEPT !.gets = request, !.logs = <<"HTTP_FAILED">>,
                           !.response = response, !.events = <<"get", "fail">>]
        ELSE [Trace EXCEPT !.gets = request, !.result = TRUE,
                           !.response = get.body, !.events = <<"get">>]

----------------------------------------------------------------------------
(* Inputs *)

StackSizes == {n * StackStep : n \in 0..MaxStackSteps}
Tokens     == {NullToken, ShortTokenLen, LongTokenLen}
JsonSizes  == 0..MaxJsonSize
Formatted  == (0 - MinFormatted)..MaxFormatted

\* record arrays of up to MaxFieldsAmt + 1 entries
DataArrays == UNION {[1..n -> DataRecords] : n \in 0..(MaxFieldsAmt + 1)}

\* what a GET can come back with: the int of m_client.get, the status code
\* (0 when the status line carries no number) and the body
GetStatusCodes == StatusCodes \cup {HTTP_SUCCESS}
Bodies    == {"body"}
Responses == {"", "old"}
Gets      == [code : PostCodes, status : GetStatusCodes, body : Bodies]

\* documents a caller builds itself: null, {} and objects of 1 .. MaxFieldsAmt + 1 members
ObjectOf(n) == [null |-> FALSE, fields |-> [i \in 1..n |-> [key |-> KeyNames[i], val |-> "1"]]]
Documents == {NullDoc} \cup {ObjectOf(n) : n \in 0..(MaxFieldsAmt + 1)}

\* JSON strings a caller passes in (NullJson is nullptr); the paths of
\* sendPostRequest and sendGetRequest
NullJson    == [text |-> <<>>, terminated |-> FALSE]
JsonStrings == {[text |-> Render(ObjectOf(n)), terminated |-> TRUE] : n \in 0..1}
Paths       == {"/api/v1/rpc"}

----------------------------------------------------------------------------
(* State machine *)

NoCall == [op |-> "none", telemetry |-> FALSE, data |-> <<>>, fmt |-> 0, size |-> 0,
           nullInput |-> FALSE, json |-> [text |-> <<>>, terminated |-> FALSE],
           before |-> ""]

Init ==
    /\ m_maxStack \in StackSizes
    /\ m_token \in Tokens
    /\ heap = 0
    /\ call = Trace @@ Built @@ NoCall

\* The operations are synchronous and never overlap: one begins when the
\* one before has handed its outcome to the caller.
Running == call.op = "none"

\* The caller takes the outcome of the operation and goes on; after an
\* assert / abort or an invalid memory access there is no program left.
Return ==
    /\ call.op # "none"
    /\ call.outcome \in {"returned", "threw"}
    /\ call' = Trace @@ Built @@ NoCall
    /\ UNCHANGED <<m_maxStack, m_token, heap>>

FinishWith(inputs, t) ==
    /\ call' = t @@ Built @@ inputs
    /\ heap' = heap + t.allocs - t.frees
    /\ UNCHANGED <<m_maxStack, m_token>>

Finish(op, telemetry, data, t) ==
    FinishWith([NoCall EXCEPT !.op = op, !.telemetry = telemetry, !.data = data], t)

setMaximumStackSize ==
    /\ Running
    /\ \E maxStackSize \in StackSizes : m_maxStack' = maxStackSize
    /\ call' = Trace @@ Built @@ [NoCall EXCEPT !.op = "setMaximumStackSize"]
    /\ UNCHANGED <<m_token, heap>>

DirectJson(op, telemetry) ==
    /\ Running
    /\ \E doc \in Documents, jsonSize \in JsonSizes, env \in Envs :
         Finish(op, telemetry, <<>>,
                sendJson(telemetry, doc, jsonSize, env)
                @@ [Built EXCEPT !.doc = doc, !.jsonSize = jsonSize])

sendTelemetryJsonObject  == DirectJson("sendTelemetryJson(JsonObject)", TRUE)
sendTelemetryJsonVariant == DirectJson("sendTelemetryJson(JsonVariant)", TRUE)
sendAttributeJSONObject  == DirectJson("sendAttributeJSON(JsonObject)", FALSE)
sendAttributeJSONVariant == DirectJson("sendAttributeJSON(JsonVariant)", FALSE)

sendTelemetry ==
    /\ Running
    /\ \E data \in DataArrays, env \in Envs :
         Finish("sendTelemetry", TRUE, data, sendDataArray(data, TRUE, env))

sendAttributes ==
    /\ Running
    /\ \E data \in DataArrays, env \in Envs :
         Finish("sendAttributes", FALSE, data, sendDataArray(data, FALSE, env))

\* sendTelemetryInt / Bool / Float / String
sendTelemetryValue ==
    /\ Running
    /\ \E t \in DataRecords, env \in Envs :
         Finish("sendTelemetryValue", TRUE, <<t>>, sendKeyValue(t, TRUE, env))

\* sendAttributeInt / Bool / Float / String
sendAttributeValue ==
    /\ Running
    /\ \E t \in DataRecords, env \in Envs :
         Finish("sendAttributeValue", FALSE, <<t>>, sendKeyValue(t, FALSE, env))

\* sendTelemetry / sendAttributes with data = nullptr and data_count = Len(cells)
NullArray(op, telemetry) ==
    /\ Running
    /\ \E cells \in DataArrays, env \in Envs :
         FinishWith([NoCall EXCEPT !.op = op, !.telemetry = telemetry,
                                   !.data = cells, !.nullInput = TRUE],
                    sendDataArrayNull(cells, telemetry, env))

sendTelemetryNull  == NullArray("sendTelemetry(nullptr)", TRUE)
sendAttributesNull == NullArray("sendAttributes(nullptr)", FALSE)

\* sendTelemetryJson(const char *json) / sendAttributeJSON(const char *json)
JsonString(op, telemetry) ==
    /\ Running
    /\ \E json \in JsonStrings \cup {NullJson}, env \in Envs :
         FinishWith([NoCall EXCEPT !.op = op, !.telemetry = telemetry,
                                   !.json = json, !.nullInput = (json = NullJson)],
                    sendJsonString(telemetry, json = NullJson, json, env))

sendTelemetryJsonString == JsonString("sendTelemetryJson(const char*)", TRUE)
sendAttributeJSONString == JsonString("sendAttributeJSON(const char*)", FALSE)

\* sendTelemetryData(type, key, value)
callSendTelemetryData ==
    /\ Running
    /\ \E type \in Tags, key \in Keys \cup {NullKey}, value \in Vals, env \in Envs :
         Finish("sendTelemetryData", TRUE, <<[key |-> key, val |-> value]>>,
                sendTelemetryData(type, key, "CString", value, env))

\* sendAttributeData(type, key, value)
callSendAttributeData ==
    /\ Running
    /\ \E type \in Tags, key \in Keys \cup {NullKey}, value \in Vals,
          taken \in BOOLEAN, env \in Envs :
         Finish("sendAttributeData", FALSE, <<[key |-> key, val |-> value]>>,
                sendAttributeData(type, key, "CString", value, taken, env))

\* sendPostRequest(path, json)
sendPostRequest ==
    /\ Running
    /\ \E path \in Paths, json \in JsonStrings, env \in Envs :
         FinishWith([NoCall EXCEPT !.op = "sendPostRequest", !.json = json],
                    postMessage([topic |-> path, chars |-> 0, length |-> 0,
                                 terminated |-> TRUE], json, env))

\* sendGetRequest(path, response)
sendGetRequest ==
    /\ Running
    /\ \E path \in Paths, response \in Responses, get \in Gets :
         FinishWith([NoCall EXCEPT !.op = "sendGetRequest", !.before = response],
                    getMessage(response, get))

Measure(op, d, n) ==
    /\ call' = [Trace EXCEPT !.outcome = IF d.aborted THEN "aborted" ELSE "returned"]
               @@ Built @@ [NoCall EXCEPT !.op = op, !.fmt = n, !.size = d.value]
    /\ UNCHANGED <<m_maxStack, m_token, heap>>

callDetectSize ==
    /\ Running
    /\ \E n \in Formatted : Measure("detectSize", detectSize(n), n)

callHelperDetectSize ==
    /\ Running
    /\ \E n \in Formatted : Measure("Helper::detectSize", Helper_detectSize(n), n)

Next ==
    \/ setMaximumStackSize
    \/ sendTelemetryJsonObject
    \/ sendTelemetryJsonVariant
    \/ sendAttributeJSONObject
    \/ sendAttributeJSONVariant
    \/ sendTelemetry
    \/ sendAttributes
    \/ sendTelemetryValue
    \/ sendAttributeValue
    \/ sendTelemetryNull
    \/ sendAttributesNull
    \/ sendTelemetryJsonString
    \/ sendAttributeJSONString
    \/ callSendTelemetryData
    \/ callSendAttributeData
    \/ sendPostRequest
    \/ sendGetRequest
    \/ callDetectSize
    \/ callHelperDetectSize
    \/ Return

Spec == Init /\ [][Next]_vars

----------------------------------------------------------------------------
(* Properties *)

DirectOps == {"sendTelemetryJson(JsonObject)", "sendTelemetryJson(JsonVariant)",
              "sendAttributeJSON(JsonObject)", "sendAttributeJSON(JsonVariant)"}
ArrayOps  == {"sendTelemetry", "sendAttributes"}
ValueOps  == {"sendTelemetryValue", "sendAttributeValue"}
SizeOps   == {"detectSize", "Helper::detectSize"}

NonEmpty(data) == SelectSeq(data, LAMBDA t : ~IsEmpty(t))

\* A direct JSON send whose document passed the null and field-count checks.
PassedChecks ==
    /\ call.op \in DirectOps
    /\ ~call.doc.null
    /\ DocSize(call.doc) <= MaxFieldsAmt

\* C1: a JSON send that needs requiredBytes takes its buffer from the call
\* frame, without any heap allocation, when requiredBytes <= maxStackBytes,
\* and from the heap when requiredBytes > maxStackBytes.
C1_StackOrHeapByThreshold ==
    /\ PassedChecks =>
         /\ call.requested = call.jsonSize
         /\ call.jsonSize <= m_maxStack => call.buf = "stack" /\ call.allocs = 0
         /\ call.jsonSize > m_maxStack => call.buf = "heap"
    /\ call.buf = "stack" => call.requested <= m_maxStack /\ call.allocs = 0
    /\ call.buf = "heap" => call.requested > m_maxStack

\* requiredBytes = maxStackBytes + 1 went to the heap
C1_Witness ==
    /\ PassedChecks
    /\ m_maxStack > 0
    /\ call.jsonSize = m_maxStack + 1
    /\ call.buf = "heap"
    /\ call.allocs = 1

\* C2: a send that returns from the heap path with a buffer made exactly one
\* allocation and exactly one release, whether serialization succeeded,
\* serialization failed or the post failed; no send releases more than it
\* allocated, and after a completed send no heap buffer is outstanding.
C2_OneAllocationOneRelease ==
    /\ (call.buf = "heap" /\ call.outcome = "returned" /\ ~call.nullWrite)
          => call.allocs = 1 /\ call.frees = 1
    /\ call.frees <= call.allocs
    /\ call.allocs <= 1
    /\ call.outcome = "returned" => heap = 0

\* the heap path left through a serialization failure
C2_Witness ==
    /\ call.buf = "heap"
    /\ call.outcome = "returned"
    /\ call.logs = <<UNABLE_TO_SERIALIZE_JSON>>
    /\ call.allocs = 1
    /\ call.frees = 1
    /\ heap = 0

PairwiseDistinctKeys(data) ==
    \A i, j \in 1..Len(data) : (i # j) => data[i].key # data[j].key

\* C3 (as claimed): an aggregated send of more than MaxFieldsAmt records fails
\* with the capacity-exceeded condition before any record is serialized into
\* the document and before any measurement, and produces no document.
\* Stated for the records of the claim's scenario: all non-empty, all with
\* different keys.
C3_RejectedBeforeSerialization ==
    (/\ call.op \in ArrayOps
     /\ Len(call.data) > MaxFieldsAmt
     /\ NonEmpty(call.data) = call.data
     /\ PairwiseDistinctKeys(call.data)) =>
        /\ call.result = FALSE
        /\ call.logs = <<TOO_MANY_JSON_FIELDS>>
        /\ call.nserialized = 0
        /\ call.doc = NullDoc
        /\ ~call.measured
        /\ call.posts = <<>>

\* An aggregated send of at most MaxFieldsAmt records, at least one of them
\* non-empty, whose aggregation succeeded (the document went on to be measured).
AggregatedWithinBudget ==
    /\ call.op \in ArrayOps
    /\ Len(call.data) <= MaxFieldsAmt
    /\ NonEmpty(call.data) # <<>>
    /\ call.measured
    /\ call.outcome = "returned"
    /\ ~call.nullWrite

\* C4 (as claimed): a successful aggregation of at most MaxFieldsAmt records
\* yields a document with one field per non-empty input record, in input
\* order, also when two records share a key.
C4_FieldPerRecord ==
    AggregatedWithinBudget =>
        /\ DocSize(call.doc) = Len(NonEmpty(call.data))
        /\ call.doc.fields = NonEmpty(call.data)

\* C4 (amended): when the non-empty records have pairwise distinct keys, a
\* successful aggregation of at most MaxFieldsAmt records yields a document
\* whose fields are the non-empty input records, in input order.
C4_FieldPerDistinctKey ==
    (AggregatedWithinBudget /\ PairwiseDistinctKeys(NonEmpty(call.data))) =>
        /\ DocSize(call.doc) = Len(NonEmpty(call.data))
        /\ call.doc.fields = NonEmpty(call.data)

\* two records with different keys were aggregated into a two-field document
C4_Witness ==
    /\ AggregatedWithinBudget
    /\ Len(call.data) = MaxFieldsAmt
    /\ PairwiseDistinctKeys(NonEmpty(call.data))
    /\ DocSize(call.doc) = MaxFieldsAmt
    /\ call.posts # <<>>

\* C5 (as claimed): in an aggregated send that mixes empty and non-empty
\* records the empty ones are skipped and are no failure: the aggregation is
\* not aborted and goes on with the non-empty records.
C5_EmptyRecordsSkipped ==
    (/\ call.op \in ArrayOps
     /\ Len(call.data) <= MaxFieldsAmt
     /\ NonEmpty(call.data) # <<>>
     /\ NonEmpty(call.data) # call.data
     /\ PairwiseDistinctKeys(NonEmpty(call.data))) =>
        /\ call.logs # <<UNABLE_TO_SERIALIZE>>
        /\ call.measured
        /\ call.doc.fields = NonEmpty(call.data)

AllEmpty(data) == \A i \in 1..Len(data) : IsEmpty(data[i])

\* C6: a send whose records are all empty (one empty record, an array of
\* empty records, an array of no records) returns false, asks for no buffer,
\* stack or heap, and never calls the transport.
C6_NothingToSend ==
    (call.op \in ArrayOps \cup ValueOps /\ AllEmpty(call.data)) =>
        /\ call.outcome = "returned"
        /\ call.result = FALSE
        /\ call.buf = "none"
        /\ call.requested = 0
        /\ call.allocs = 0
        /\ ~call.serialized
        /\ call.posts = <<>>

\* an aggregated send of two empty records returned false
C6_Witness ==
    /\ call.op \in ArrayOps
    /\ Len(call.data) = 2
    /\ AllEmpty(call.data)
    /\ call.outcome = "returned"
    /\ call.result = FALSE
    /\ call.buf = "none"

\* C7 (as claimed): a payload reaches the transport only if serialization
\* wrote exactly requiredBytes - 1 characters; a document cut to a jsonSize
\* below its measured size, or jsonSize = 0, is a serialization failure and
\* nothing is posted.
C7_PostOnlyExactLength ==
    (/\ call.op \in DirectOps
     /\ call.outcome = "returned"
     /\ ~call.nullWrite
     /\ call.posts # <<>>) =>
        /\ call.written = call.jsonSize - 1
        /\ call.jsonSize = JSON_STRING_SIZE(measureJson(call.doc))
        /\ call.posts[1].json.text = Render(call.doc)

\* C8 (as claimed): for every rendered length, 255 and more included, both
\* detectSize functions return the rendered length plus one, hence at least 1.
C8_SizeIsLengthPlusOne ==
    (call.op \in SizeOps /\ call.fmt >= 0) =>
        /\ call.outcome = "returned"
        /\ call.size = call.fmt + 1
        /\ call.size >= 1

\* C9 (as claimed): when the dry-run formatter reports a negative size,
\* detectSize ends the operation and returns no size to its caller.
C9_NegativeSizeIsFatal ==
    (call.op \in SizeOps /\ call.fmt < 0) => call.outcome = "aborted"

\* C10 (as claimed): when the heap has no memory for the buffer of a send, the
\* send returns false: nothing is thrown, the buffer that was not obtained is
\* neither written nor given to serialization, and no post is made.
C10_AllocationFailureReturnsFalse ==
    (call.buf = "heap" /\ call.allocs = 0) =>
        /\ call.outcome = "returned"
        /\ call.result = FALSE
        /\ ~call.nullWrite
        /\ ~call.serialized
        /\ call.posts = <<>>

StringOps == {"sendTelemetryJson(const char*)", "sendAttributeJSON(const char*)"}
DataOps   == {"sendTelemetryData", "sendAttributeData"}
NullOps   == {"sendTelemetry(nullptr)", "sendAttributes(nullptr)"}
SendOps   == DirectOps \cup ArrayOps \cup ValueOps \cup StringOps \cup DataOps
                 \cup NullOps \cup {"sendPostRequest"}

\* The operation has handed false back to its caller.
ReturnedFalse == call.op \in SendOps /\ call.outcome = "returned" /\ ~call.result

\* C11: every send operation that returns false has logged at least one line
\* before it returned, whichever stage failed (empty record, null json or
\* null token, null document, too many fields, serialization failure,
\* transport failure).
C11_FailedSendLogged == ReturnedFalse => call.logs # <<>>

\* The stages of a send among the steps it took, in the order of the
\* pipeline; releasing the buffer is not a stage.
StageOrder == <<"collect", "aggregate", "measure", "allocate", "serialize", "post", "fail">>
StageRank(step) == CHOOSE i \in 1..Len(StageOrder) : StageOrder[i] = step
Stages(steps) == SelectSeq(steps, LAMBDA step : step # "free")
LastStage(steps) == Stages(steps)[Len(Stages(steps))]

CheckMessages == {UNABLE_TO_ALLOCATE_MEMORY, TOO_MANY_JSON_FIELDS,
                  UNABLE_TO_SERIALIZE_JSON, UNABLE_TO_SERIALIZE}

\* C12: within one send the stages occur only in the order Collecting,
\* Aggregating, Measuring, Allocating, Serializing, Ready-to-send: no stage is
\* entered again after it was left, a failed check (capacity exceeded, empty
\* input, serialization mismatch) ends the send in Failed with nothing
\* posted, and the transport post is invoked at most once.
C12_StagesInOrder ==
    call.op \in SendOps =>
        LET st == Stages(call.events)
        IN  /\ \A i, j \in 1..Len(st) : i < j => StageRank(st[i]) < StageRank(st[j])
            /\ Len(call.posts) <= 1
            /\ (\E k \in 1..Len(call.logs) : call.logs[k] \in CheckMessages) =>
                   /\ LastStage(call.events) = "fail"
                   /\ call.posts = <<>>
                   /\ ~call.result
            /\ call.result => LastStage(call.events) = "post"

\* an aggregated send went through every stage and was posted
C12_Witness ==
    /\ call.op \in ArrayOps
    /\ ~call.nullWrite
    /\ Stages(call.events) = SubSeq(StageOrder, 1, 6)
    /\ Len(call.posts) = 1
    /\ call.result


\* A send that was given a null json string, a null record array together
\* with data_count > 0, or that runs on a client whose access token is null.
NullInputGiven ==
    /\ call.op \in SendOps \ {"sendPostRequest"}
    /\ \/ m_token = NullToken
       \/ call.nullInput /\ (call.op \in NullOps => Len(call.data) > 0)

\* C13: a send given null input (a null json string, a null access token, or
\* a null record array with data_count > 0) returns false without reading
\* through the null input, without requesting a buffer and without invoking
\* the transport.
C13_NullInputIsNoOp ==
    NullInputGiven =>
        /\ call.outcome = "returned"
        /\ ~call.result
        /\ ~call.nullRead
        /\ call.buf = "none"
        /\ call.allocs = 0
        /\ call.posts = <<>>


AttributeOps == {"sendAttributeData", "sendAttributeValue", "sendAttributes",
                 "sendAttributes(nullptr)",
                 "sendAttributeJSON(JsonObject)", "sendAttributeJSON(JsonVariant)",
                 "sendAttributeJSON(const char*)"}
TelemetryOps == {"sendTelemetryData", "sendTelemetryValue", "sendTelemetry",
                 "sendTelemetry(nullptr)",
                 "sendTelemetryJson(JsonObject)", "sendTelemetryJson(JsonVariant)",
                 "sendTelemetryJson(const char*)"}

\* The path /api/v1/<token>/<topic>, whole and terminated.
IsPathOf(path, topic) ==
    /\ path.topic = topic
    /\ path.terminated
    /\ path.chars = path.length

\* C14: every attribute operation that reaches the transport posts to
\* /api/v1/<token>/attributes, every telemetry operation to
\* /api/v1/<token>/telemetry, never the other way round, and an operation
\* that was given one key and one value posts that key with that value.
C14_PostsToOwnPath ==
    /\ (call.op \in AttributeOps /\ call.posts # <<>>) =>
           IsPathOf(call.posts[1].path, "attributes")
    /\ (call.op \in TelemetryOps /\ call.posts # <<>>) =>
           IsPathOf(call.posts[1].path, "telemetry")
    /\ (call.op \in ValueOps \cup DataOps /\ call.posts # <<>>) =>
           call.posts[1].json.text = Render(SetMember(EmptyObject, call.data[1]))


\* C15: sendGetRequest returns true, with the caller's response string set
\* to the body the transport received, whenever the GET reports success
\* (HTTP_SUCCESS) and the status code is 200.
C15_GetSucceeds ==
    (/\ call.op = "sendGetRequest"
     /\ call.gets[1].code = HTTP_SUCCESS
     /\ call.gets[1].status = HTTP_RESPONSE_SUCCESS_CODE) =>
        /\ call.result
        /\ call.response = call.gets[1].body

\* C16: whenever sendGetRequest returns false, the caller's response string
\* is what it was before the call.
C16_ResponseKeptOnFailure ==
    (call.op = "sendGetRequest" /\ ~call.result) => call.response = call.before

\* a GET that failed on a caller's string that held something else than the body
C16_Witness ==
    /\ call.op = "sendGetRequest"
    /\ ~call.result
    /\ call.before = "old"
    /\ call.gets[1].body # call.before
    /\ call.logs = <<"HTTP_FAILED">>


\* C17: a send that reaches the transport returns true exactly when the post
\* reports HTTP_SUCCESS and the response status code is 200; on any other
\* post result or status code the failure is logged and the send returns
\* false.
C17_TrueIffPostSucceeded ==
    (call.op \in SendOps /\ call.posts # <<>>) =>
        LET post == call.posts[1]
            ok   == post.success = HTTP_SUCCESS /\ post.status = HTTP_RESPONSE_SUCCESS_CODE
        IN  /\ call.outcome = "returned"
            /\ call.result <=> ok
            /\ ~ok => call.logs = <<"HTTP_FAILED">>
            /\ ok => call.logs = <<>>

\* a post that went out and came back with another status code than 200
C17_Witness ==
    /\ call.op \in SendOps
    /\ call.posts # <<>>
    /\ call.posts[1].success = HTTP_SUCCESS
    /\ call.posts[1].status # HTTP_RESPONSE_SUCCESS_CODE
    /\ ~call.result


\* C18: in the fixed-capacity configuration a direct JSON send whose document
\* holds more than MaxFieldsAmt fields returns false, logs the
\* too-many-fields message, takes no buffer and posts nothing; a document of
\* exactly MaxFieldsAmt fields is not rejected by this check.
C18_TooManyFieldsRejected ==
    (call.op \in DirectOps /\ ~call.doc.null) =>
        /\ DocSize(call.doc) > MaxFieldsAmt =>
               /\ call.outcome = "returned"
               /\ ~call.result
               /\ call.logs = <<TOO_MANY_JSON_FIELDS>>
               /\ call.buf = "none"
               /\ call.allocs = 0
               /\ call.posts = <<>>
        /\ DocSize(call.doc) = MaxFieldsAmt =>
               /\ call.logs # <<TOO_MANY_JSON_FIELDS>>
               /\ call.buf # "none"

\* a document of MaxFieldsAmt + 1 fields was turned down
C18_Witness ==
    /\ call.op \in DirectOps
    /\ DocSize(call.doc) = MaxFieldsAmt + 1
    /\ call.logs = <<TOO_MANY_JSON_FIELDS>>


\* The positions of a step among the steps of the call.
Positions(step) == {i \in 1..Len(call.events) : call.events[i] = step}

\* A send that took its buffer from the heap and got one.
HeapSend == call.op \in SendOps /\ call.buf = "heap" /\ call.allocs = 1

\* C19: on the heap path the buffer is released only after the post that
\* reads it has returned: the release is the last step of the send, after the
\* serialization and the post, it happens once, and when the send returns
\* the buffer is gone.
C19_ReleasedAfterPost ==
    HeapSend =>
        /\ \A f \in Positions("free") :
               /\ f = Len(call.events)
               /\ \A u \in Positions("serialize") \cup Positions("post") : u < f
        /\ call.frees <= 1
        /\ call.frees = 1 <=> Positions("free") # {}
        /\ call.outcome = "returned" => call.frees = 1 /\ heap = 0

\* a heap buffer was posted from and released afterwards
C19_Witness ==
    /\ HeapSend
    /\ Positions("post") # {}
    /\ Positions("free") = {Len(call.events)}
    /\ heap = 0


\* What a caller and the transport see of a send.
Observable(t) == [result |-> t.result, outcome |-> t.outcome,
                  logs |-> t.logs, posts |-> t.posts]

\* C20: for the same document, jsonSize and transport behaviour the stack
\* path and the heap path of a send are observably equivalent: whichever of
\* the two the configured maximum stack size selects, the send returns the
\* same boolean, logs the same lines and makes the same posts with the same
\* path and payload.
C20_StackHeapEquivalent ==
    (call.op \in SendOps /\ call.buf # "none") =>
        \A env \in Envs :
            Observable(sendBufferedOn(TRUE, call.telemetry, call.doc, call.requested, env))
            = Observable(sendBufferedOn(FALSE, call.telemetry, call.doc, call.requested, env))

====
